---- MODULE Spec2Model ----
(***************************************************************************)
(* Model of purchasing/opportunities/views.py: the vendor signup and       *)
(* manage (unsubscribe) handlers, the browse and detail views, and the     *)
(* admin create/edit path with its document upload.                        *)
(***************************************************************************)
EXTENDS Integers, Sequences, FiniteSets, TLC

VARIABLES
    vendors,        \* the Vendor table: a sequence of rows in insertion order
    req,            \* the request the last handler served
    resp,           \* the response the last handler produced
    pc,             \* concurrent manage requests: each request's position
    loc,            \* concurrent manage requests: each request's local variables
    initial,        \* the subscription set before the concurrent requests ran
    lastWriter,     \* the concurrent request that committed last (0: none yet)
    users,          \* the User table
    opportunities,  \* the Opportunity table
    today,          \* datetime.date.today()
    upload_s3,      \* current_app.config.get('UPLOAD_S3')
    disk,           \* the paths written under UPLOAD_DESTINATION
    bucket          \* the keys written to the S3 bucket

vendorVars == <<vendors, req, resp>>
raceVars == <<pc, loc, initial, lastWriter>>
oppVars == <<users, opportunities, today, upload_s3, disk, bucket>>
vars == <<vendors, req, resp, pc, loc, initial, lastWriter,
          users, opportunities, today, upload_s3, disk, bucket>>

\* ------------------------------------------------------------------ bounds

MaxFields == 2      \* subcategory fields in one signup form
MaxVendors == 3     \* rows the Vendor table may hold
MaxOpps == 2        \* rows the Opportunity table may hold
MaxUsers == 3       \* rows the User table may hold

\* ------------------------------------------------------------- input sets

Emails == {"a@x.com", "b@x.com"}
NoEmail == "<no email>"
BusinessNames == {"Acme", "Bolt"}

\* The Category table; no handler of views.py writes to it.
Category ==
    { [id |-> 1, category |-> "Construction", subcategory |-> "Concrete"],
      [id |-> 2, category |-> "Construction", subcategory |-> "Paving"],
      [id |-> 3, category |-> "Supplies", subcategory |-> "Paper"] }

NoCategory == [id |-> 0, category |-> "None", subcategory |-> "None"]

CategoryIds == {c.id : c \in Category}

\* Category.query.get(i): the row with that primary key, or None.
CategoryGet(i) ==
    IF \E c \in Category : c.id = i
    THEN CHOOSE c \in Category : c.id = i
    ELSE NoCategory

\* The text "subcategories-<rest>" of a dynamically named field, and the
\* fields a signup form may carry.  "01" and "1" are different names for the
\* same identifier; 9 is an identifier with no Category row.
SubcatKey(rest) == [prefix |-> "subcategories-", rest |-> rest]
EmailKey == [prefix |-> "", rest |-> "email"]

SubcatFields ==
    { [key |-> SubcatKey("1"), value |-> "on"],
      [key |-> SubcatKey("01"), value |-> "on"],
      [key |-> SubcatKey("2"), value |-> "on"],
      [key |-> SubcatKey("3"), value |-> "on"],
      [key |-> SubcatKey("3"), value |-> ""],
      [key |-> SubcatKey("9"), value |-> "on"] }

\* int(k.split('-')[1])
IntOf(rest) ==
    CASE rest = "1" -> 1
      [] rest = "01" -> 1
      [] rest = "2" -> 2
      [] rest = "3" -> 3
      [] rest = "9" -> 9

\* '{}'.format(x) of an identifier
StrOfInt(n) ==
    CASE n = 1 -> "1"
      [] n = 2 -> "2"
      [] n = 3 -> "3"
      [] n = 4 -> "4"
      [] n = 9 -> "9"
      [] OTHER -> "?"

\* '{}'.format(subcat) of a Category row or of None
StrOfCategory(c) == IF c = NoCategory THEN "None" ELSE c.subcategory

Range(s) == {s[i] : i \in DOMAIN s}

\* request.form.iteritems(): one (key, value) pair per distinct key.
SeqsUpTo(S, n) == UNION {[1..m -> S] : m \in 0..n}
Forms ==
    { f \in SeqsUpTo(SubcatFields, MaxFields) :
        \A i, j \in DOMAIN f : i # j => f[i].key # f[j].key }

\* The whole request.form: the static fields and the subcategory fields.
RequestForm(email, f) == <<[key |-> EmailKey, value |-> email]>> \o f

RECURSIVE SortedSeq(_)
\* list(set): the elements in ascending order
SortedSeq(S) ==
    IF S = {} THEN <<>>
    ELSE LET m == CHOOSE x \in S : \A y \in S : x <= y
         IN  <<m>> \o SortedSeq(S \ {m})

RECURSIVE Insert(_, _)
Insert(x, s) ==
    IF s = <<>> THEN <<x>>
    ELSE IF x <= Head(s) THEN <<x>> \o s
    ELSE <<Head(s)>> \o Insert(x, Tail(s))

RECURSIVE AssociationRows(_)
\* A vendor's rows in the vendor/category association table for the list
\* assigned to vendor.categories: one row per list entry.  The table keeps
\* no list order, so the rows are held in ascending order of category id.
AssociationRows(list) ==
    IF list = <<>> THEN <<>>
    ELSE Insert(Head(list), AssociationRows(Tail(list)))

\* ---------------------------------------------------------------- signup

RECURSIVE IterateFieldsNoDedup(_, _, _)
\* faulty variant of the loop: no "and we don't have it already" test
IterateFieldsNoDedup(items, subcats, categories) ==
    IF items = <<>>
    THEN [raised |-> FALSE, message |-> "", categories |-> categories]
    ELSE LET k == Head(items).key
             v == Head(items).value
         IN  IF k.prefix # "subcategories-"
             THEN IterateFieldsNoDedup(Tail(items), subcats, categories)
             ELSE LET subcat_id == IntOf(k.rest)
                  IN  IF v = "on"
                      THEN LET subcat == CategoryGet(subcat_id)
                           IN  IF subcat = NoCategory
                               THEN [raised |-> TRUE,
                                     message |-> StrOfCategory(subcat),
                                     categories |-> categories]
                               ELSE IterateFieldsNoDedup(Tail(items),
                                        subcats \cup {subcat_id},
                                        Append(categories, subcat.id))
                      ELSE IterateFieldsNoDedup(Tail(items), subcats, categories)

RECURSIVE IterateFields(_, _, _)
\* "manually iterate the form fields": the checked subcategories, each once,
\* resolved to Category rows; ValidationError on the first that does not resolve.
\* message is the text substituted into '{} is not a valid choice!'.
IterateFields(items, subcats, categories) ==
    IF items = <<>>
    THEN [raised |-> FALSE, message |-> "", categories |-> categories]
    ELSE LET k == Head(items).key
             v == Head(items).value
         IN  IF k.prefix # "subcategories-"
             THEN IterateFields(Tail(items), subcats, categories)
             ELSE LET subcat_id == IntOf(k.rest)
                  IN  IF v = "on" /\ subcat_id \notin subcats
                      THEN LET subcat == CategoryGet(subcat_id)
                           IN  IF subcat = NoCategory
                               THEN [raised |-> TRUE,
                                     message |-> StrOfCategory(subcat),
                                     categories |-> categories]
                               ELSE IterateFields(Tail(items),
                                        subcats \cup {subcat_id},
                                        Append(categories, subcat.id))
                      ELSE IterateFields(Tail(items), subcats, categories)

\* faulty variant of the lookup: it never finds the row
FirstVendorNever(rows, email) == 0

\* Vendor.query.filter(Vendor.email == email).first(): the index of the first
\* row with that email, 0 for None.
FirstVendor(rows, email) ==
    IF \E i \in DOMAIN rows : rows[i].email = email
    THEN CHOOSE i \in DOMAIN rows :
            /\ rows[i].email = email
            /\ \A j \in DOMAIN rows : rows[j].email = email => i <= j
    ELSE 0

\* vendor.update(**form_data): every submitted attribute overwrites the row's.
VendorUpdate(rows, i, form_data) ==
    [rows EXCEPT ![i] = [id |-> @.id,
                         email |-> form_data.email,
                         business_name |-> form_data.business_name,
                         categories |-> AssociationRows(form_data.categories)]]

\* Vendor.create(**form_data): one new row with the next primary key.
VendorCreate(rows, form_data) ==
    Append(rows, [id |-> Len(rows) + 1,
                  email |-> form_data.email,
                  business_name |-> form_data.business_name,
                  categories |-> AssociationRows(form_data.categories)])

\* The identifiers checked in a form, read off the submitted fields.
Checked(f) ==
    {IntOf(f[i].key.rest) : i \in {j \in DOMAIN f : f[j].value = "on"}}

\* POST /signup with a form that validates.
SignupSubmit(email, business_name, f) ==
    LET vendor == FirstVendor(vendors, email)
        it == IterateFields(RequestForm(email, f), {}, <<>>)
        form_data == [email |-> email, business_name |-> business_name,
                      categories |-> it.categories]
    IN  /\ req' = [handler |-> "signup", email |-> email, checked |-> Checked(f),
                   unsubscribe |-> FALSE]
        /\ IF it.raised
           THEN /\ resp' = [kind |-> "exception", exc |-> "ValidationError",
                            message |-> it.message, flash |-> "",
                            errors |-> <<>>, choices |-> <<>>]
                /\ UNCHANGED vendors
           ELSE IF vendor # 0
           THEN /\ vendors' = VendorUpdate(vendors, vendor, form_data)
                /\ resp' = [kind |-> "redirect", exc |-> "", message |-> "",
                            flash |-> "alert-info",
                            errors |-> <<>>, choices |-> <<>>]
           ELSE /\ Len(vendors) < MaxVendors
                /\ vendors' = VendorCreate(vendors, form_data)
                /\ \E confirmation_sent \in BOOLEAN :
                      resp' = [kind |-> "redirect", exc |-> "", message |-> "",
                               flash |-> IF confirmation_sent THEN "alert-success"
                                         ELSE "alert-danger",
                               errors |-> <<>>, choices |-> <<>>]

\* GET /signup, or a POST that does not validate: no Vendor is read or
\* written.  With ?email= the address is parked in the client's session cookie
\* and the client is redirected; otherwise the form is rendered.
SignupView(page_email) ==
    /\ req' = [handler |-> "signup_view", email |-> page_email, checked |-> {},
               unsubscribe |-> FALSE]
    /\ UNCHANGED vendors
    /\ resp' = [kind |-> IF page_email # NoEmail THEN "redirect" ELSE "render",
                exc |-> "", message |-> "", flash |-> "",
                errors |-> <<>>, choices |-> <<>>]

\* ---------------------------------------------------------------- manage

Buttons == {"Unsubscribe from checked", "unsubscribe from checked",
            "Update email address"}

\* str.lower() on the button texts
Lower(b) ==
    CASE b = "Unsubscribe from checked" -> "unsubscribe from checked"
      [] b = "Update email address" -> "update email address"
      [] OTHER -> b

\* faulty variant of the remainder: the removal set itself is kept
RemainingSwapped(current, removals) == SortedSeq(current \cap removals)

\* list(set([i.id for i in vendor.categories]).difference(form.subscriptions.data))
Remaining(current, removals) == SortedSeq(current \ removals)

\* [Category.query.get(i) for i in subscriptions], as category ids
GetAll(subscriptions) ==
    [i \in DOMAIN subscriptions |-> CategoryGet(subscriptions[i]).id]

\* vendor.categories = list; db.session.commit()
SetCategories(rows, i, list) ==
    [rows EXCEPT ![i].categories = AssociationRows(list)]

\* [(subscription.id, subscription.subcategory) for subscription in vendor.categories]
Choices(cats) ==
    [i \in DOMAIN cats |-> <<cats[i], CategoryGet(cats[i]).subcategory>>]

\* POST /manage with a form that validates.
ManageSubmit(email, button, data) ==
    LET vendor == FirstVendor(vendors, email)
        errors == IF vendor = 0 THEN <<"We could not find the email">> ELSE <<>>
        unsubscribe == Lower(button) = "unsubscribe from checked"
    IN  /\ req' = [handler |-> "manage", email |-> email, checked |-> data,
                   unsubscribe |-> unsubscribe]
        /\ IF unsubscribe /\ vendor = 0
           THEN \* vendor.categories on None
                /\ resp' = [kind |-> "exception", exc |-> "AttributeError",
                            message |-> "", flash |-> "",
                            errors |-> errors, choices |-> <<>>]
                /\ UNCHANGED vendors
           ELSE IF unsubscribe
           THEN LET subscriptions ==
                        Remaining(Range(vendors[vendor].categories), data)
                    after == SetCategories(vendors, vendor, GetAll(subscriptions))
                IN  /\ vendors' = after
                    /\ resp' = [kind |-> "render", exc |-> "", message |-> "",
                                flash |-> "alert-success", errors |-> errors,
                                choices |-> Choices(after[vendor].categories)]
           ELSE /\ UNCHANGED vendors
                /\ resp' = [kind |-> "render", exc |-> "", message |-> "",
                            flash |-> "", errors |-> errors,
                            choices |-> IF vendor = 0 THEN <<>>
                                        ELSE Choices(vendors[vendor].categories)]

\* GET /manage, or a POST that does not validate: the empty form.
ManageView ==
    /\ req' = [handler |-> "manage_view", email |-> NoEmail, checked |-> {},
               unsubscribe |-> FALSE]
    /\ UNCHANGED vendors
    /\ resp' = [kind |-> "render", exc |-> "", message |-> "", flash |-> "",
                errors |-> <<>>, choices |-> <<>>]

\* ------------------------------------------- concurrent manage requests

Requests == {1, 2}

NoLocals == [email |-> NoEmail, data |-> {}, vendor |-> 0, before |-> {},
             subscriptions |-> <<>>]

RaceIdle ==
    /\ pc = [p \in Requests |-> "idle"]
    /\ loc = [p \in Requests |-> NoLocals]
    /\ initial = {}
    /\ lastWriter = 0

\* lines 155-159 of a request whose button is 'unsubscribe from checked':
\* the vendor row is looked up by email.
RaceQuery(p, email, data) ==
    /\ pc[p] = "idle"
    /\ pc' = [pc EXCEPT ![p] = "queried"]
    /\ loc' = [loc EXCEPT ![p] = [NoLocals EXCEPT !.email = email,
                                                  !.data = data,
                                                  !.vendor = FirstVendor(vendors, email)]]
    /\ UNCHANGED <<vendors, req, resp, initial, lastWriter>>

\* line 162: vendor.categories is loaded and the remainder computed from it;
\* on vendor None the attribute access raises.
RaceRead(p) ==
    /\ pc[p] = "queried"
    /\ IF loc[p].vendor = 0
       THEN /\ pc' = [pc EXCEPT ![p] = "failed"]
            /\ UNCHANGED loc
       ELSE LET current == Range(vendors[loc[p].vendor].categories)
            IN  /\ pc' = [pc EXCEPT ![p] = "computed"]
                /\ loc' = [loc EXCEPT ![p].before = current,
                                      ![p].subscriptions =
                                          Remaining(current, loc[p].data)]
    /\ UNCHANGED <<vendors, req, resp, initial, lastWriter>>

\* variant of the list: the remainder is computed again from the stored set
WriteListFresh(p) ==
    GetAll(Remaining(Range(vendors[loc[p].vendor].categories), loc[p].data))

\* line 163: the list built from the remainder computed at line 162
WriteList(p) == GetAll(loc[p].subscriptions)

\* lines 163-165: the list is assigned and committed.
RaceWrite(p) ==
    /\ pc[p] = "computed"
    /\ vendors' = SetCategories(vendors, loc[p].vendor, WriteList(p))
    /\ pc' = [pc EXCEPT ![p] = "done"]
    /\ lastWriter' = p
    /\ UNCHANGED <<req, resp, loc, initial>>

\* ----------------------------------------------------------- opportunities

\* Two calendar days; today is either, so a stored date lies before, on or
\* after today.
Dates == {1, 2}

StaffEmail == "staff@city.gov"
ContactEmails == {StaffEmail, "c@x.com"}
RandomIds == {"k3x9qz", "p0w2me"}
UploadDestination == "uploads"

\* data.get('document'): None, or a FileStorage with the client's file name
\* (the empty name when the file input was left empty).
NoDocument == [present |-> FALSE, filename |-> ""]
FileStorage(filename) == [present |-> TRUE, filename |-> filename]
Documents ==
    {NoDocument, FileStorage(""), FileStorage("bid.pdf"), FileStorage("../")}

\* werkzeug's secure_filename on the file names above
secure_filename(filename) ==
    CASE filename = "bid.pdf" -> "bid.pdf"
      [] filename = "../" -> ""
      [] OTHER -> ""

\* A file name, key or path is a tuple of its text parts; None is <<>>.
None == <<>>

\* faulty variant of the lookup: it never finds the row
FirstUserNever(rows, email) == 0

\* User.query.filter(User.email == email).first(): index of the row, 0 for None

FirstUser(rows, email) ==
    IF \E i \in DOMAIN rows : rows[i].email = email
    THEN CHOOSE i \in DOMAIN rows :
            /\ rows[i].email = email
            /\ \A j \in DOMAIN rows : rows[j].email = email => i <= j
    ELSE 0

\* opportunity.contact: the User row the contact_id refers to
FirstUserById(rows, id) == CHOOSE i \in DOMAIN rows : rows[i].id = id

\* User().create(email=, role_id=, department=)
UserCreate(rows, email, role_id, department) ==
    Append(rows, [id |-> Len(rows) + 1, email |-> email, role_id |-> role_id,
                  department |-> department])

\* Opportunity.query.get(id): index of the row, 0 for None
OpportunityGet(opportunity_id) ==
    IF \E i \in DOMAIN opportunities : opportunities[i].id = opportunity_id
    THEN CHOOSE i \in DOMAIN opportunities : opportunities[i].id = opportunity_id
    ELSE 0

\* Opportunity.create(**data)
OpportunityCreate(rows, data) ==
    Append(rows, [id |-> Len(rows) + 1] @@ data)

\* opportunity.update(**data)
OpportunityUpdate(rows, i, data) ==
    [rows EXCEPT ![i] = [id |-> @.id] @@ data]

\* Opportunity.is_published(): today lies in the publication window
is_published(o) == o.planned_open <= today /\ today <= o.planned_deadline

\* upload_document(document, _id): what it returns and where it writes.
\* _id is 0 for None; rid is what random_id(6) returns if it is called.
upload_document(document, _id, rid) ==
    IF ~document.present
    THEN \* line 211: document.filename on None
         [raised |-> TRUE, filename |-> None, filepath |-> None, target |-> "none"]
    ELSE LET filename == secure_filename(document.filename)
             id == IF _id # 0 THEN StrOfInt(_id) ELSE rid
         IN  IF filename = ""
             THEN [raised |-> FALSE, filename |-> None, filepath |-> None,
                   target |-> "none"]
             ELSE IF upload_s3
             THEN [raised |-> FALSE, target |-> "s3",
                   filename |-> <<"opportunity-", id, ".pdf">>,
                   filepath |-> <<"https://s3/", UploadDestination, "/",
                                  "opportunity-", id, ".pdf">>]
             ELSE [raised |-> FALSE, target |-> "disk",
                   filename |-> <<filename>>,
                   filepath |-> <<UploadDestination, "/", filename>>]

OppResponse(kind, status, opportunity) ==
    [kind |-> kind, status |-> status, opportunity |-> opportunity,
     opportunities |-> <<>>, active |-> <<>>, upcoming |-> <<>>]

\* abort(404)
NotFound == OppResponse("abort", 404, 0)

\* build_opportunity(data, opportunity) and the redirect of its caller;
\* opportunity is the index of the row being edited, 0 for None.
BuildOpportunity(handler, data, opportunity, rid) ==
    LET contact_email == data.contact_email
        contact == FirstUser(users, contact_email)
        created == UserCreate(users, contact_email, 2, data.department)
        contact_id == IF contact = 0 THEN created[Len(created)].id
                      ELSE users[contact].id
        _id == IF opportunity # 0 THEN opportunities[opportunity].id ELSE 0
        up == upload_document(data.document, _id, rid)
        fields == [is_public |-> data.is_public,
                   planned_open |-> data.planned_open,
                   planned_deadline |-> data.planned_deadline,
                   contact_id |-> contact_id, created_by |-> 1,
                   document |-> up.filename, document_href |-> up.filepath]
    IN  /\ contact = 0 => Len(users) < MaxUsers
        /\ users' = IF contact = 0 THEN created ELSE users
        /\ req' = [handler |-> handler, contact_email |-> contact_email,
                   document |-> data.document, opportunity |-> _id, upload |-> up]
        /\ IF up.raised
           THEN /\ resp' = OppResponse("exception", 500, 0)
                /\ UNCHANGED <<opportunities, disk, bucket>>
           ELSE /\ disk' = IF up.target = "disk" THEN disk \cup {up.filepath}
                           ELSE disk
                /\ bucket' = IF up.target = "s3" THEN bucket \cup {up.filename}
                             ELSE bucket
                /\ IF opportunity # 0
                   THEN /\ opportunities' =
                               OpportunityUpdate(opportunities, opportunity, fields)
                        /\ resp' = OppResponse("redirect", 302,
                                               opportunities[opportunity].id)
                   ELSE /\ Len(opportunities) < MaxOpps
                        /\ opportunities' = OpportunityCreate(opportunities, fields)
                        /\ resp' = OppResponse("redirect", 302,
                                               Len(opportunities) + 1)

\* POST /opportunities/admin/new with a form that validates.
New(data, rid) == BuildOpportunity("new", data, 0, rid)

\* GET /opportunities/admin/new, or a POST that does not validate.
NewView ==
    /\ req' = [handler |-> "new_view", contact_email |-> NoEmail,
               document |-> NoDocument, opportunity |-> 0]
    /\ resp' = OppResponse("render", 200, 0)
    /\ UNCHANGED <<users, opportunities, disk, bucket>>

\* /opportunities/<id>/admin/edit.  The contact_email field is overwritten
\* with the current contact's email (line 280) before the form is validated,
\* so that is the email build_opportunity receives.
Edit(opportunity_id, valid, data) ==
    LET opportunity == OpportunityGet(opportunity_id)
    IN  IF opportunity = 0
        THEN /\ req' = [handler |-> "edit_view", contact_email |-> NoEmail,
                        document |-> NoDocument, opportunity |-> opportunity_id]
             /\ resp' = NotFound
             /\ UNCHANGED <<users, opportunities, disk, bucket>>
        ELSE IF ~valid
        THEN /\ req' = [handler |-> "edit_view", contact_email |-> NoEmail,
                        document |-> NoDocument, opportunity |-> opportunity_id]
             /\ resp' = OppResponse("render", 200, opportunity_id)
             /\ UNCHANGED <<users, opportunities, disk, bucket>>
        ELSE LET contact == FirstUserById(users, opportunities[opportunity].contact_id)
             IN  BuildOpportunity("edit",
                     [data EXCEPT !.contact_email = users[contact].email],
                     opportunity, "")

\* faulty variant of the loop: the is_public test is dropped
BrowseLoopAnyone(rows, active, upcoming) ==
    [active |-> SelectSeq(rows, LAMBDA i : is_published(opportunities[i])),
     upcoming |-> SelectSeq(rows, LAMBDA i : ~is_published(opportunities[i]))]

RECURSIVE BrowseLoop(_, _, _)
\* lines 183-188: rows are the indexes of the queried opportunities, in the
\* order the query returned them
BrowseLoop(rows, active, upcoming) ==
    IF rows = <<>> THEN [active |-> active, upcoming |-> upcoming]
    ELSE LET opportunity == opportunities[Head(rows)]
         IN  IF opportunity.is_public
             THEN IF is_published(opportunity)
                  THEN BrowseLoop(Tail(rows), Append(active, Head(rows)), upcoming)
                  ELSE BrowseLoop(Tail(rows), active, Append(upcoming, Head(rows)))
             ELSE BrowseLoop(Tail(rows), active, upcoming)

\* The orders in which a query may return the rows S.
Orders(S) ==
    {o \in [1..Cardinality(S) -> S] : \A i, j \in DOMAIN o : o[i] = o[j] => i = j}

\* Opportunity.query.filter(Opportunity.planned_deadline >= today).all()
Upcoming == {i \in DOMAIN opportunities : opportunities[i].planned_deadline >= today}

\* GET /opportunities
Browse(rows) ==
    LET parts == BrowseLoop(rows, <<>>, <<>>)
    IN  /\ req' = [handler |-> "browse", contact_email |-> NoEmail,
                   document |-> NoDocument, opportunity |-> 0]
        /\ resp' = [kind |-> "render", status |-> 200, opportunity |-> 0,
                    opportunities |-> rows,
                    active |-> parts.active, upcoming |-> parts.upcoming]
        /\ UNCHANGED <<users, opportunities, disk, bucket>>

\* faulty variant of the test: any existing opportunity is shown
DetailVisibleAny(opportunity) == opportunity # 0

\* line 203: opportunity and opportunity.is_public
DetailVisible(opportunity) ==
    opportunity # 0 /\ opportunities[opportunity].is_public

\* GET /opportunities/<id>
Detail(opportunity_id) ==
    LET opportunity == OpportunityGet(opportunity_id)
    IN  /\ req' = [handler |-> "detail", contact_email |-> NoEmail,
                   document |-> NoDocument, opportunity |-> opportunity_id]
        /\ resp' = IF DetailVisible(opportunity)
                   THEN OppResponse("render", 200, opportunities[opportunity].id)
                   ELSE NotFound
        /\ UNCHANGED <<users, opportunities, disk, bucket>>

NoRequest == [handler |-> "none", email |-> NoEmail, checked |-> {},
              unsubscribe |-> FALSE]
NoResponse == [kind |-> "none", exc |-> "", message |-> "", flash |-> "",
               errors |-> <<>>, choices |-> <<>>]

\* The opportunity side before any opportunity exists: the staff user with
\* id 1 (the created_by of every opportunity) is present.
OppIdle ==
    /\ users = <<[id |-> 1, email |-> StaffEmail, role_id |-> 1,
                  department |-> "Innovation"]>>
    /\ opportunities = <<>>
    /\ today = 1
    /\ upload_s3 = FALSE
    /\ disk = {}
    /\ bucket = {}

Init ==
    /\ vendors = <<>>
    /\ req = NoRequest
    /\ resp = NoResponse
    /\ RaceIdle
    /\ OppIdle

Next ==
    /\ \/ \E email \in Emails, b \in BusinessNames, f \in Forms :
             SignupSubmit(email, b, f)
       \/ \E page_email \in Emails \cup {NoEmail} : SignupView(page_email)
    /\ UNCHANGED <<raceVars, oppVars>>

Spec == Init /\ [][Next]_vars

\* The manage handler over the vendors that signups with one business name
\* bring about.
ManageNext ==
    /\ \/ \E email \in Emails, f \in Forms : SignupSubmit(email, "Acme", f)
       \/ \E email \in Emails, button \in Buttons, data \in SUBSET CategoryIds :
             ManageSubmit(email, button, data)
       \/ ManageView
    /\ UNCHANGED <<raceVars, oppVars>>

ManageSpec == Init /\ [][ManageNext]_vars

\* Two manage requests, both with the unsubscribe button, served concurrently
\* against a store holding one vendor.
RaceInit ==
    /\ \E cats \in SUBSET CategoryIds :
          /\ vendors = <<[id |-> 1, email |-> "a@x.com", business_name |-> "Acme",
                          categories |-> SortedSeq(cats)]>>
          /\ initial = cats
    /\ req = NoRequest
    /\ resp = NoResponse
    /\ pc = [p \in Requests |-> "idle"]
    /\ loc = [p \in Requests |-> NoLocals]
    /\ lastWriter = 0
    /\ OppIdle

RaceNext ==
    /\ \/ \E p \in Requests, email \in Emails, data \in SUBSET CategoryIds :
             RaceQuery(p, email, data)
       \/ \E p \in Requests : RaceRead(p)
       \/ \E p \in Requests : RaceWrite(p)
    /\ UNCHANGED oppVars

RaceSpec == RaceInit /\ [][RaceNext]_vars

\* The public views over the opportunities staff create and edit with the
\* staff contact and no document attached.
OppInit(days, modes) ==
    /\ vendors = <<>>
    /\ req = NoRequest
    /\ resp = NoResponse
    /\ RaceIdle
    /\ users = <<[id |-> 1, email |-> StaffEmail, role_id |-> 1,
                  department |-> "Innovation"]>>
    /\ opportunities = <<>>
    /\ today \in days
    /\ upload_s3 \in modes
    /\ disk = {}
    /\ bucket = {}

BrowseData ==
    [contact_email : {StaffEmail}, department : {"Innovation"},
     document : {FileStorage("")}, is_public : BOOLEAN,
     planned_open : Dates, planned_deadline : Dates]

BrowseNext ==
    /\ \/ \E data \in BrowseData, rid \in RandomIds : New(data, rid)
       \/ \E id \in 1..(MaxOpps + 1), data \in BrowseData : Edit(id, TRUE, data)
       \/ \E rows \in Orders(Upcoming) : Browse(rows)
       \/ \E id \in 1..(MaxOpps + 1) : Detail(id)
    /\ UNCHANGED <<vendors, raceVars, today, upload_s3>>

BrowseSpec == OppInit(Dates, {FALSE}) /\ [][BrowseNext]_vars

\* The admin create and edit handlers with every contact and document.
BuildData ==
    [contact_email : ContactEmails, department : {"Parks"},
     document : Documents, is_public : {TRUE},
     planned_open : {1}, planned_deadline : {2}]

BuildNext ==
    /\ \/ \E data \in BuildData, rid \in RandomIds : New(data, rid)
       \/ NewView
       \/ \E id \in 1..(MaxOpps + 1), valid \in BOOLEAN, data \in BuildData :
             Edit(id, valid, data)
    /\ UNCHANGED <<vendors, raceVars, today, upload_s3>>

BuildSpec == OppInit({1}, BOOLEAN) /\ [][BuildNext]_vars

\* ------------------------------------------------------------------ claims

Registered(rows, email) == \E i \in DOMAIN rows : rows[i].email = email
RowOf(rows, email) == CHOOSE i \in DOMAIN rows : rows[i].email = email
NoDuplicates(s) == \A i, j \in DOMAIN s : s[i] = s[j] => i = j
OneRowPerEmail(rows) ==
    \A i, j \in DOMAIN rows : rows[i].email = rows[j].email => i = j
SignupDone == req.handler = "signup" /\ resp.kind = "redirect"

\* C1: after any sequence of successful signups the store holds at most one
\* Vendor per email; a successful signup with an unregistered email appends
\* exactly one row (for that email) and one with a registered email rewrites
\* that row in place and appends none.
C1_OneVendorPerEmail ==
    [][ /\ OneRowPerEmail(vendors')
        /\ (req'.handler = "signup" /\ resp'.kind = "redirect") =>
              IF Registered(vendors, req'.email)
              THEN /\ Len(vendors') = Len(vendors)
                   /\ \A i \in DOMAIN vendors :
                         /\ vendors'[i].id = vendors[i].id
                         /\ vendors'[i].email = vendors[i].email
                         /\ vendors[i].email # req'.email => vendors'[i] = vendors[i]
              ELSE /\ Len(vendors') = Len(vendors) + 1
                   /\ SubSeq(vendors', 1, Len(vendors)) = vendors
                   /\ vendors'[Len(vendors')].email = req'.email ]_vars

\* C1 witness: a signup for an already registered email was served as an
\* update while another vendor is in the store.
C1_Witness ==
    /\ SignupDone
    /\ resp.flash = "alert-info"
    /\ Len(vendors) = 2
    /\ vendors[1].email = req.email

\* C2: after a successful signup the vendor's category collection holds
\* exactly one entry per distinct checked identifier and nothing else,
\* whatever the vendor held before.
C2_CategoriesAreChecked ==
    SignupDone =>
        /\ Registered(vendors, req.email)
        /\ NoDuplicates(vendors[RowOf(vendors, req.email)].categories)
        /\ Range(vendors[RowOf(vendors, req.email)].categories) = req.checked

\* C2 witness: an update of a registered vendor to the checked set {2, 3}.
C2_Witness ==
    /\ SignupDone
    /\ resp.flash = "alert-info"
    /\ req.checked = {2, 3}
    /\ vendors[RowOf(vendors, req.email)].categories = <<2, 3>>

\* C8: a signup with a checked identifier that resolves to no Category fails
\* with a validation error naming that identifier and persists nothing.
C8_UnresolvedNamed ==
    [][ (req'.handler = "signup" /\ ~(req'.checked \subseteq CategoryIds)) =>
            /\ resp'.exc = "ValidationError"
            /\ resp'.message \in {StrOfInt(i) : i \in req'.checked \ CategoryIds}
            /\ vendors' = vendors ]_vars

\* C3: an unsubscribe for an existing vendor leaves exactly (previous set
\* minus removal set), touches no other vendor, and changes nothing when the
\* same request is served a second time.
C3_SetDifference ==
    [][ (req'.handler = "manage" /\ req'.unsubscribe
            /\ Registered(vendors, req'.email)) =>
            LET i == RowOf(vendors, req'.email)
            IN  /\ Len(vendors') = Len(vendors)
                /\ Range(vendors'[i].categories) =
                       Range(vendors[i].categories) \ req'.checked
                /\ NoDuplicates(vendors'[i].categories)
                /\ \A j \in DOMAIN vendors : j # i => vendors'[j] = vendors[j]
                /\ req' = req => vendors' = vendors ]_vars

\* C3 witness: removal of {2} was served and the vendor is left with {3}.
C3_Witness ==
    /\ req.handler = "manage" /\ req.unsubscribe
    /\ req.checked = {2}
    /\ Registered(vendors, req.email)
    /\ vendors[RowOf(vendors, req.email)].categories = <<3>>
    /\ resp.choices = <<<<3, "Paper">>>>

\* C4: a manage submission whose email matches no Vendor renders the form
\* with an inline error on the email field and leaves the store unchanged,
\* whatever the button.
C4_UnknownEmailRenders ==
    [][ (req'.handler = "manage" /\ ~Registered(vendors, req'.email)) =>
            /\ resp'.kind = "render"
            /\ resp'.errors # <<>>
            /\ vendors' = vendors ]_vars

\* C10: when both concurrent unsubscribe requests have committed, the stored
\* set is what the last writer computed from its own earlier read: that
\* read's set minus that request's removals, whatever the other removed.
C10_LastWriteWins ==
    (\A p \in Requests : pc[p] = "done") =>
        Range(vendors[1].categories) =
            loc[lastWriter].before \ loc[lastWriter].data

\* C10 witness: both requests have committed and a removal was lost.
C10_LostUpdate ==
    /\ \A p \in Requests : pc[p] = "done"
    /\ Range(vendors[1].categories) # initial \ (loc[1].data \cup loc[2].data)


Shown(rows, part) == SelectSeq(rows, LAMBDA i : i \in Range(part))

\* C5: browse puts a queried opportunity (deadline today or later) in active
\* exactly when it is public and published, in upcoming exactly when it is
\* public and not published, in neither when it is not public; the two
\* collections are disjoint and keep the order of the query's result.
C5_BrowsePartition ==
    req.handler = "browse" =>
        /\ Range(resp.opportunities) = Upcoming
        /\ \A i \in Range(resp.opportunities) :
              /\ i \in Range(resp.active) <=>
                    (opportunities[i].is_public /\ is_published(opportunities[i]))
              /\ i \in Range(resp.upcoming) <=>
                    (opportunities[i].is_public /\ ~is_published(opportunities[i]))
        /\ Range(resp.active) \cap Range(resp.upcoming) = {}
        /\ resp.active = Shown(resp.opportunities, resp.active)
        /\ resp.upcoming = Shown(resp.opportunities, resp.upcoming)

\* C5 witness: the query returned opportunity 2 before opportunity 1; 2 is
\* active, 1 is upcoming.
C5_Witness ==
    /\ req.handler = "browse"
    /\ resp.opportunities = <<2, 1>>
    /\ resp.active = <<2>>
    /\ resp.upcoming = <<1>>

\* C6: detail renders exactly when a record with the requested id exists and
\* is public; a missing id and an existing non-public record get the one and
\* the same not-found response.
C6_DetailHidesPrivate ==
    req.handler = "detail" =>
        IF /\ req.opportunity \in DOMAIN opportunities
           /\ opportunities[req.opportunity].is_public
        THEN resp = OppResponse("render", 200, req.opportunity)
        ELSE resp = NotFound

\* C6 witness: the requested record exists, is not public and is within its
\* publication window; the response is the not-found response.
C6_Witness ==
    /\ req.handler = "detail"
    /\ req.opportunity \in DOMAIN opportunities
    /\ ~opportunities[req.opportunity].is_public
    /\ is_published(opportunities[req.opportunity])
    /\ resp = NotFound

\* C7: with no file attached (document None, or an empty sanitized file
\* name) upload_document returns (None, None) without failing and writes
\* neither to disk nor to the bucket, in both storage modes.
C7_NoFileEmptyResult ==
    [][ (/\ req'.handler \in {"new", "edit"}
         /\ \/ ~req'.document.present
            \/ secure_filename(req'.document.filename) = "") =>
            /\ ~req'.upload.raised
            /\ req'.upload.filename = None
            /\ req'.upload.filepath = None
            /\ disk' = disk
            /\ bucket' = bucket ]_vars

\* C9: build_opportunity reuses the User holding the contact email and
\* creates none, or creates exactly one User with that email and role_id 2;
\* the persisted opportunity's contact_id is that User's id, and there is at
\* most one User per email.
C9_ContactResolved ==
    [][ /\ OneRowPerEmail(users')
        /\ req'.handler \in {"new", "edit"} =>
              /\ IF Registered(users, req'.contact_email)
                 THEN users' = users
                 ELSE /\ Len(users') = Len(users) + 1
                      /\ SubSeq(users', 1, Len(users)) = users
                      /\ users'[Len(users')].email = req'.contact_email
                      /\ users'[Len(users')].role_id = 2
              /\ resp'.kind = "redirect" =>
                    /\ resp'.opportunity \in DOMAIN opportunities'
                    /\ opportunities'[resp'.opportunity].contact_id =
                          users'[RowOf(users', req'.contact_email)].id ]_vars

\* C9 witness: a second opportunity was created for the contact c@x.com, who
\* exists once, as a placeholder, and is the contact of both.
C9_Witness ==
    /\ req.handler = "new"
    /\ req.contact_email = "c@x.com"
    /\ resp.kind = "redirect"
    /\ Len(users) = 2
    /\ users[2].role_id = 2
    /\ Len(opportunities) = 2
    /\ opportunities[1].contact_id = 2
    /\ opportunities[2].contact_id = 2

====
